---- MODULE Spec2Model ----
(***************************************************************************)
(* Pass-network analysis (sonalain077/reseau, ReseauxSociaux/*.py).        *)
(*                                                                         *)
(* build_network assembles a networkx DiGraph from a table of pass rows,    *)
(* calculate_centralities derives four per-node metrics from it, and        *)
(* prepare_gephi_files derives a node table from the same kind of rows.     *)
(* main loops over thresholds, clean_pass_data prepares the table, and      *)
(* scrape_team_passes collects it with fetch_nba_json.                      *)
(* The DiGraph is modelled as networkx stores it: nodes in order of first   *)
(* insertion, one weight per stored ordered pair, edges in order of first   *)
(* insertion.                                                               *)
(***************************************************************************)
EXTENDS Integers, Sequences, FiniteSets, TLC

VARIABLES df, weight_column, min_weight, G, pc, centralities, df_centrality, gephi,
          raw, heap, step, output, scrape

\* raw: the table read by clean_pass_data; heap: the DiGraph objects built so
\* far in one run of main, G being the latest; step: position of main in its
\* list of thresholds; output: files written by main; scrape: the state of
\* one run of scrape_team_passes.
rest == <<raw, heap, step, output, scrape>>

vars == <<df, weight_column, min_weight, G, pc, centralities, df_centrality, gephi,
          raw, heap, step, output, scrape>>

(***************************************************************************)
(* Bounds of the model.                                                    *)
(***************************************************************************)
MaxRows == 3

(***************************************************************************)
(* Input domain: the values a row of the pass table can carry.  NaN is      *)
(* what pandas reads for a missing name.                                    *)
(***************************************************************************)
NaN == "NaN"
Players == {"A", "B"}
Names == Players \cup {NaN}
ASTValues == {-1, 5, 7}
PASSValues == {8}
WeightColumns == {"AST", "PASS"}
Thresholds == {0, 5, 10, 20}

Row == [PLAYER_NAME : Names, PASS_TO : Names, AST : ASTValues, PASS : PASSValues]

TablesOf(R, n) == UNION {[1..k -> R] : k \in 0..n}

(***************************************************************************)
(* networkx.DiGraph                                                        *)
(***************************************************************************)
DiGraph == [nodes |-> <<>>, edges |-> <<>>]

has_node(g, n) == \E i \in DOMAIN g.nodes : g.nodes[i] = n

has_edge(g, u, v) == \E i \in DOMAIN g.edges : g.edges[i].u = u /\ g.edges[i].v = v

add_node_unchecked(g, n) == [g EXCEPT !.nodes = Append(@, n)]

add_node(g, n) == IF has_node(g, n) THEN g ELSE [g EXCEPT !.nodes = Append(@, n)]

add_edge_accumulate(g, u, v, w) ==
    LET g1 == add_node(add_node(g, u), v)
    IN  IF has_edge(g1, u, v)
        THEN [g1 EXCEPT !.edges =
                 [i \in DOMAIN @ |->
                     IF @[i].u = u /\ @[i].v = v
                     THEN [@[i] EXCEPT !.weight = @ + w]
                     ELSE @[i]]]
        ELSE [g1 EXCEPT !.edges = Append(@, [u |-> u, v |-> v, weight |-> w])]

add_edge(g, u, v, w) ==
    LET g1 == add_node(add_node(g, u), v)
    IN  IF has_edge(g1, u, v)
        THEN [g1 EXCEPT !.edges =
                 [i \in DOMAIN @ |->
                     IF @[i].u = u /\ @[i].v = v
                     THEN [@[i] EXCEPT !.weight = w]
                     ELSE @[i]]]
        ELSE [g1 EXCEPT !.edges = Append(@, [u |-> u, v |-> v, weight |-> w])]

number_of_nodes(g) == Len(g.nodes)

number_of_edges(g) == Len(g.edges)

(***************************************************************************)
(* build_network                                                           *)
(***************************************************************************)
RowWeight(row, column) == IF column = "AST" THEN row.AST ELSE row.PASS

df_filtered_strict(table, column, threshold) ==
    LET keep(row) == RowWeight(row, column) > threshold
    IN  SelectSeq(table, keep)

df_filtered(table, column, threshold) ==
    LET keep(row) == RowWeight(row, column) >= threshold
    IN  SelectSeq(table, keep)

RECURSIVE AddRows(_, _, _)
AddRows(g, rows, column) ==
    IF rows = <<>> THEN g
    ELSE AddRows(add_edge(g, Head(rows).PLAYER_NAME, Head(rows).PASS_TO,
                          RowWeight(Head(rows), column)),
                 Tail(rows), column)

build_network_first_passer(table, column, threshold) ==
    AddRows(IF table = <<>> THEN DiGraph
            ELSE add_node(DiGraph, Head(table).PLAYER_NAME),
            df_filtered(table, column, threshold), column)

build_network(table, column, threshold) ==
    AddRows(DiGraph, df_filtered(table, column, threshold), column)

(***************************************************************************)
(* Exact fractions <<numerator, denominator>> in lowest terms, for the      *)
(* path-count ratios of the betweenness accumulation.                       *)
(***************************************************************************)
Abs(x) == IF x < 0 THEN -x ELSE x

RECURSIVE GCD(_, _)
GCD(a, b) == IF b = 0 THEN a ELSE GCD(b, a % b)

Frac(n, d) == LET g == GCD(Abs(n), d) IN <<n \div g, d \div g>>

FZero == <<0, 1>>

FAdd(a, b) == Frac(a[1] * b[2] + b[1] * a[2], a[2] * b[2])

FMul(a, b) == Frac(a[1] * b[1], a[2] * b[2])

FLess(a, b) == a[1] * b[2] < b[1] * a[2]

(***************************************************************************)
(* G.in_degree(weight='weight') and G.out_degree(weight='weight')           *)
(***************************************************************************)
RECURSIVE SumWeights(_)
SumWeights(es) == IF es = <<>> THEN 0 ELSE Head(es).weight + SumWeights(Tail(es))

in_edges(g, n) == LET into(e) == e.v = n IN SelectSeq(g.edges, into)

out_edges(g, n) == LET from(e) == e.u = n IN SelectSeq(g.edges, from)

NodeSet(g) == {g.nodes[i] : i \in DOMAIN g.nodes}

in_degree_unweighted(g) == [n \in NodeSet(g) |-> Len(in_edges(g, n))]

in_degree(g) == [n \in NodeSet(g) |-> SumWeights(in_edges(g, n))]

out_degree(g) == [n \in NodeSet(g) |-> SumWeights(out_edges(g, n))]

(***************************************************************************)
(* nx.betweenness_centrality(G, weight='weight'): Brandes' algorithm, one   *)
(* Dijkstra search per source with the 'weight' attribute of an edge as     *)
(* its length, then the dependency accumulation and the normalisation.      *)
(***************************************************************************)
heappop(Q) ==
    CHOOSE e \in Q : \A f \in Q : e.dist < f.dist \/ (e.dist = f.dist /\ e.c <= f.c)

RECURSIVE Relax(_, _, _, _)
Relax(st, v, dist, succs) ==
    IF succs = <<>> THEN st
    ELSE LET w == Head(succs).v
             vw_dist == dist + Head(succs).weight
             st1 == IF w \notin DOMAIN st.D
                       /\ (w \notin DOMAIN st.seen \/ vw_dist < st.seen[w])
                    THEN [st EXCEPT !.seen = (w :> vw_dist) @@ @,
                                    !.Q = @ \cup {[dist |-> vw_dist, c |-> st.c,
                                                   pred |-> v, v |-> w]},
                                    !.c = @ + 1,
                                    !.sigma[w] = 0,
                                    !.P[w] = <<v>>]
                    ELSE IF vw_dist = st.seen[w]
                    THEN [st EXCEPT !.sigma[w] = @ + st.sigma[v],
                                    !.P[w] = Append(@, v)]
                    ELSE st
         IN  Relax(st1, v, dist, Tail(succs))

RECURSIVE DijkstraLoop(_, _)
DijkstraLoop(g, st) ==
    IF st.Q = {} THEN st
    ELSE LET e == heappop(st.Q)
             st0 == [st EXCEPT !.Q = @ \ {e}]
         IN  IF e.v \in DOMAIN st0.D
             THEN DijkstraLoop(g, st0)
             ELSE LET st1 == [st0 EXCEPT !.sigma[e.v] = @ + st0.sigma[e.pred],
                                         !.S = Append(@, e.v),
                                         !.D = (e.v :> e.dist) @@ @]
                  IN  DijkstraLoop(g, Relax(st1, e.v, e.dist, out_edges(g, e.v)))

single_source_dijkstra_path_basic(g, s) ==
    DijkstraLoop(g, [S |-> <<>>,
                     P |-> [n \in NodeSet(g) |-> <<>>],
                     sigma |-> [n \in NodeSet(g) |-> IF n = s THEN 1 ELSE 0],
                     D |-> <<>>,
                     seen |-> (s :> 0),
                     Q |-> {[dist |-> 0, c |-> 0, pred |-> s, v |-> s]},
                     c |-> 1])

RECURSIVE AddDependency(_, _, _, _)
AddDependency(delta, preds, sigma, coeff) ==
    IF preds = <<>> THEN delta
    ELSE AddDependency(
             [delta EXCEPT ![Head(preds)] =
                  FAdd(@, FMul(<<sigma[Head(preds)], 1>>, coeff))],
             Tail(preds), sigma, coeff)

RECURSIVE accumulate_basic_endpoints(_, _, _, _, _, _)
accumulate_basic_endpoints(betweenness, S, P, sigma, s, delta) ==
    IF S = <<>> THEN betweenness
    ELSE LET w == S[Len(S)]
             coeff == FMul(FAdd(<<1, 1>>, delta[w]), Frac(1, sigma[w]))
             delta1 == AddDependency(delta, P[w], sigma, coeff)
             b1 == [betweenness EXCEPT ![w] = FAdd(@, delta1[w])]
         IN  accumulate_basic_endpoints(b1, SubSeq(S, 1, Len(S) - 1), P, sigma, s, delta1)

RECURSIVE accumulate_basic(_, _, _, _, _, _)
accumulate_basic(betweenness, S, P, sigma, s, delta) ==
    IF S = <<>> THEN betweenness
    ELSE LET w == S[Len(S)]
             coeff == FMul(FAdd(<<1, 1>>, delta[w]), Frac(1, sigma[w]))
             delta1 == AddDependency(delta, P[w], sigma, coeff)
             b1 == IF w # s
                   THEN [betweenness EXCEPT ![w] = FAdd(@, delta1[w])]
                   ELSE betweenness
         IN  accumulate_basic(b1, SubSeq(S, 1, Len(S) - 1), P, sigma, s, delta1)

RECURSIVE BetweennessFrom(_, _, _)
BetweennessFrom(g, sources, betweenness) ==
    IF sources = <<>> THEN betweenness
    ELSE LET r == single_source_dijkstra_path_basic(g, Head(sources))
             delta == [n \in {r.S[i] : i \in DOMAIN r.S} |-> FZero]
         IN  BetweennessFrom(g, Tail(sources),
                 accumulate_basic(betweenness, r.S, r.P, r.sigma, Head(sources), delta))

rescale(betweenness, n) ==
    IF n <= 2 THEN betweenness
    ELSE [v \in DOMAIN betweenness |->
              FMul(betweenness[v], Frac(1, (n - 1) * (n - 2)))]

betweenness_centrality(g) ==
    rescale(BetweennessFrom(g, g.nodes, [n \in NodeSet(g) |-> FZero]),
            number_of_nodes(g))

(***************************************************************************)
(* nx.pagerank(G, weight='weight'): power iteration with the library's      *)
(* default parameters.  Ranks are fixed-point numbers, PRScale units to 1.  *)
(***************************************************************************)
PRScale == 120 * 1000000
AlphaPercent == 85
MaxIter == 100
TolPerMillion == 1

\* percent * value / 100, rounded down, without leaving 32-bit integers
Percent(percent, value) ==
    percent * (value \div 100) + (percent * (value % 100)) \div 100

RECURSIVE SumOver(_, _)
SumOver(f, ns) == IF ns = <<>> THEN 0 ELSE f[Head(ns)] + SumOver(f, Tail(ns))

\* value * weight / total, rounded down, without leaving 32-bit integers
Share(value, weight, total) ==
    (value \div total) * weight + ((value % total) * weight) \div total

Inflow_first_edge(x, S, es) ==
    IF es = <<>> THEN 0
    ELSE IF S[Head(es).u] # 0
         THEN Share(x[Head(es).u], Head(es).weight, S[Head(es).u])
         ELSE 0

RECURSIVE Inflow(_, _, _)
Inflow(x, S, es) ==
    IF es = <<>> THEN 0
    ELSE (IF S[Head(es).u] # 0
          THEN Share(x[Head(es).u], Head(es).weight, S[Head(es).u])
          ELSE 0)
         + Inflow(x, S, Tail(es))

RECURSIVE PageRankStep_no_dangling(_, _, _, _, _)
PageRankStep_no_dangling(g, x, S, danglesum, ns) ==
    IF ns = <<>> THEN <<>>
    ELSE LET N == number_of_nodes(g)
             n == Head(ns)
             rank == Percent(AlphaPercent, Inflow(x, S, in_edges(g, n)))
                     + Percent(100 - AlphaPercent, PRScale \div N)
         IN  (n :> rank) @@ PageRankStep_no_dangling(g, x, S, danglesum, Tail(ns))

RECURSIVE PageRankStep(_, _, _, _, _)
PageRankStep(g, x, S, danglesum, ns) ==
    IF ns = <<>> THEN <<>>
    ELSE LET N == number_of_nodes(g)
             n == Head(ns)
             rank == Percent(AlphaPercent,
                             Inflow(x, S, in_edges(g, n)) + danglesum \div N)
                     + Percent(100 - AlphaPercent, PRScale \div N)
         IN  (n :> rank) @@ PageRankStep(g, x, S, danglesum, Tail(ns))

RECURSIVE L1Change(_, _, _)
L1Change(x, xlast, ns) ==
    IF ns = <<>> THEN 0
    ELSE Abs(x[Head(ns)] - xlast[Head(ns)]) + L1Change(x, xlast, Tail(ns))

RECURSIVE PowerIteration(_, _, _, _)
PowerIteration(g, S, xlast, iter) ==
    IF iter = MaxIter THEN [converged |-> FALSE, x |-> xlast]
    ELSE LET is_dangling(n) == S[n] = 0
             danglesum == SumOver(xlast, SelectSeq(g.nodes, is_dangling))
             x == PageRankStep(g, xlast, S, danglesum, g.nodes)
             err == L1Change(x, xlast, g.nodes)
         IN  IF err < number_of_nodes(g) * TolPerMillion * (PRScale \div 1000000)
             THEN [converged |-> TRUE, x |-> x]
             ELSE PowerIteration(g, S, x, iter + 1)

RECURSIVE OutWeights(_, _)
OutWeights(g, ns) ==
    IF ns = <<>> THEN <<>>
    ELSE (Head(ns) :> SumWeights(out_edges(g, Head(ns)))) @@ OutWeights(g, Tail(ns))

RECURSIVE Uniform(_, _)
Uniform(ns, value) ==
    IF ns = <<>> THEN <<>> ELSE (Head(ns) :> value) @@ Uniform(Tail(ns), value)

pagerank(g) ==
    IF number_of_nodes(g) = 0 THEN [converged |-> TRUE, x |-> <<>>]
    ELSE PowerIteration(g, OutWeights(g, g.nodes),
                        Uniform(g.nodes, PRScale \div number_of_nodes(g)), 0)

(***************************************************************************)
(* calculate_centralities                                                  *)
(***************************************************************************)
calculate_centralities(g) ==
    LET pr == pagerank(g)
    IN  IF ~pr.converged
        THEN [raised |-> "PowerIterationFailedConvergence"]
        ELSE [raised |-> "None",
              degree_in |-> in_degree(g),
              degree_out |-> out_degree(g),
              betweenness |-> betweenness_centrality(g),
              pagerank |-> pr.x]

centrality_table(g, c) ==
    [i \in DOMAIN g.nodes |->
        [Joueur |-> g.nodes[i],
         Degre_Entrant |-> c.degree_in[g.nodes[i]],
         Degre_Sortant |-> c.degree_out[g.nodes[i]],
         Intermediarite |-> c.betweenness[g.nodes[i]],
         PageRank |-> c.pagerank[g.nodes[i]]]]

(***************************************************************************)
(* The graphs calculate_centralities is applied to: up to MaxEdges          *)
(* weighted ordered pairs (self-loops included) over three players, plus    *)
(* any players that have no edge.                                           *)
(***************************************************************************)
MaxEdges == 3

NodeOrder == <<"A", "B", "C">>
EdgeWeights == {0, 5, 10}

PairCount == Len(NodeOrder) * Len(NodeOrder)
PairSource(i) == NodeOrder[((i - 1) \div Len(NodeOrder)) + 1]
PairTarget(i) == NodeOrder[((i - 1) % Len(NodeOrder)) + 1]

GraphOf(ns, E, w) ==
    LET present(n) == n \in ns
        chosen(i) == i \in E
        idx == SelectSeq([i \in 1..PairCount |-> i], chosen)
    IN  [nodes |-> SelectSeq(NodeOrder, present),
         edges |-> [k \in DOMAIN idx |->
                      [u |-> PairSource(idx[k]), v |-> PairTarget(idx[k]),
                       weight |-> w[idx[k]]]]]

Graphs ==
    UNION { UNION { { GraphOf(ns, E, w) : w \in [E -> EdgeWeights] } :
                    ns \in { m \in SUBSET {NodeOrder[i] : i \in DOMAIN NodeOrder} :
                               \A i \in E : PairSource(i) \in m /\ PairTarget(i) \in m } } :
            E \in { F \in SUBSET (1..PairCount) : Cardinality(F) <= MaxEdges } }

(***************************************************************************)
(* One call of build_network: a table is loaded, then the graph is built    *)
(* from it for a weight column and a threshold.                             *)
(***************************************************************************)
None == "None"

Idle ==
    /\ raw = None
    /\ heap = <<>>
    /\ step = 0
    /\ output = {}
    /\ scrape = None

Init ==
    /\ df \in TablesOf(Row, MaxRows)
    /\ weight_column = "AST"
    /\ min_weight = 0
    /\ G = DiGraph
    /\ pc = "loaded"
    /\ centralities = None
    /\ df_centrality = None
    /\ gephi = None
    /\ Idle

BuildNetwork ==
    /\ pc = "loaded"
    /\ \E column \in WeightColumns, threshold \in Thresholds :
          /\ weight_column' = column
          /\ min_weight' = threshold
          /\ G' = build_network(df, column, threshold)
    /\ pc' = "built"
    /\ UNCHANGED <<df, centralities, df_centrality, gephi>>
    /\ UNCHANGED rest

Next == BuildNetwork

Spec == Init /\ [][Next]_vars

(***************************************************************************)
(* calculate_centralities applied to a graph.                              *)
(***************************************************************************)
InitCentrality ==
    /\ df = <<>>
    /\ weight_column = "AST"
    /\ min_weight = 0
    /\ G \in Graphs
    /\ pc = "built"
    /\ centralities = None
    /\ df_centrality = None
    /\ gephi = None
    /\ Idle

CalculateCentralities ==
    /\ pc = "built"
    /\ LET c == calculate_centralities(G)
       IN  IF c.raised # "None"
           THEN /\ centralities' = c
                /\ df_centrality' = None
                /\ pc' = "raised"
           ELSE /\ centralities' = c
                /\ df_centrality' = centrality_table(G, c)
                /\ pc' = "computed"
    /\ UNCHANGED <<df, weight_column, min_weight, G, gephi>>
    /\ UNCHANGED rest

NextCentrality == CalculateCentralities

SpecCentrality == InitCentrality /\ [][NextCentrality]_vars

(***************************************************************************)
(* prepare_gephi_files (and the same code in clean_and_prepare_gephi):      *)
(* the edge table and the node table derived from a cleaned pass table,     *)
(* whose rows carry player ids and display names.                           *)
(***************************************************************************)
MaxGephiRows == 2

PlayerIds == {1, 2, 3}
Labels == {"x", "y"}
GephiASTValues == {0, 3}

GephiRow ==
    {r \in [PLAYER_ID : PlayerIds, PLAYER_NAME_LAST_FIRST : Labels,
            PASS_TEAMMATE_PLAYER_ID : PlayerIds, PASS_TO : Labels,
            AST : GephiASTValues, PASS : PASSValues] :
        r.PLAYER_ID # r.PASS_TEAMMATE_PLAYER_ID}

gephi_edges(table) ==
    [i \in DOMAIN table |->
        [Source |-> table[i].PLAYER_ID,
         Target |-> table[i].PASS_TEAMMATE_PLAYER_ID,
         Weight |-> table[i].AST,
         Passes |-> table[i].PASS,
         Type |-> "Directed"]]

passers(table) ==
    [i \in DOMAIN table |->
        [Id |-> table[i].PLAYER_ID, Label |-> table[i].PLAYER_NAME_LAST_FIRST]]

receivers(table) ==
    [i \in DOMAIN table |->
        [Id |-> table[i].PASS_TEAMMATE_PLAYER_ID, Label |-> table[i].PASS_TO]]

RECURSIVE drop_duplicates_keep_last(_)
drop_duplicates_keep_last(rows) ==
    IF rows = <<>> THEN <<>>
    ELSE LET last == rows[Len(rows)]
             other(r) == r.Id # last.Id
         IN  Append(drop_duplicates_keep_last(
                        SelectSeq(SubSeq(rows, 1, Len(rows) - 1), other)), last)

RECURSIVE drop_duplicates(_)
drop_duplicates(rows) ==
    IF rows = <<>> THEN <<>>
    ELSE LET other(r) == r.Id # Head(rows).Id
         IN  <<Head(rows)>> \o drop_duplicates(SelectSeq(Tail(rows), other))

RECURSIVE SumAST(_)
SumAST(rows) == IF rows = <<>> THEN 0 ELSE Head(rows).AST + SumAST(Tail(rows))

Assists_Donnes(table, id) ==
    LET given(r) == r.PLAYER_ID = id IN SumAST(SelectSeq(table, given))

Assists_Recus(table, id) ==
    LET received(r) == r.PASS_TEAMMATE_PLAYER_ID = id IN SumAST(SelectSeq(table, received))

gephi_nodes(table) ==
    LET unique == drop_duplicates(passers(table) \o receivers(table))
    IN  [i \in DOMAIN unique |->
            [Id |-> unique[i].Id,
             Label |-> unique[i].Label,
             Assists_Donnes |-> Assists_Donnes(table, unique[i].Id),
             Assists_Recus |-> Assists_Recus(table, unique[i].Id),
             Total_Assists |-> Assists_Donnes(table, unique[i].Id)
                                 + Assists_Recus(table, unique[i].Id)]]

\* nodes.sort_values('Total_Assists', ascending=False): the order of rows
\* with equal totals is left to the sorting routine.
sort_values(rows) ==
    {[i \in DOMAIN rows |-> rows[perm[i]]] :
        perm \in {q \in [DOMAIN rows -> DOMAIN rows] :
                    /\ \A i, j \in DOMAIN rows : q[i] = q[j] => i = j
                    /\ \A i, j \in DOMAIN rows :
                          i < j => rows[q[i]].Total_Assists >= rows[q[j]].Total_Assists}}

InitGephi ==
    /\ df \in TablesOf(GephiRow, MaxGephiRows)
    /\ weight_column = "AST"
    /\ min_weight = 0
    /\ G = DiGraph
    /\ pc = "loaded"
    /\ centralities = None
    /\ df_centrality = None
    /\ gephi = None
    /\ Idle

PrepareGephiFiles ==
    /\ pc = "loaded"
    /\ \E sorted \in sort_values(gephi_nodes(df)) :
          gephi' = [nodes |-> sorted, edges |-> gephi_edges(df)]
    /\ pc' = "prepared"
    /\ UNCHANGED <<df, weight_column, min_weight, G, centralities, df_centrality>>
    /\ UNCHANGED rest

NextGephi == PrepareGephiFiles

SpecGephi == InitGephi /\ [][NextGephi]_vars

(***************************************************************************)
(* main of visualize_pass_network.py: the table is loaded once, then for    *)
(* each threshold in turn a new graph is built; an empty graph is skipped,  *)
(* otherwise the centralities are computed and reported.  row['PLAYER_NAME']*)
(* raises KeyError when the table has no such column.                       *)
(***************************************************************************)
MaxMainRows == 2

MainThresholds == <<0, 5, 10, 20>>
MainASTValues == {0, 7, 20}

MainRow == [PLAYER_NAME : Players, PASS_TO : Players,
            AST : MainASTValues, PASS : PASSValues]

build_network_call(table, column, threshold) ==
    LET rows == df_filtered(table, column, threshold)
    IN  IF rows # <<>> /\ "PLAYER_NAME" \notin DOMAIN Head(rows)
        THEN [raised |-> "KeyError", G |-> DiGraph]
        ELSE [raised |-> "None", G |-> AddRows(DiGraph, rows, column)]

NextStep == IF step = Len(MainThresholds) THEN "done" ELSE "loop"

InitMain ==
    /\ df \in TablesOf(MainRow, MaxMainRows)
    /\ weight_column = "AST"
    /\ min_weight = 0
    /\ G = DiGraph
    /\ pc = "loop"
    /\ centralities = None
    /\ df_centrality = None
    /\ gephi = None
    /\ raw = None
    /\ heap = <<>>
    /\ step = 1
    /\ output = {}
    /\ scrape = None

MainBuild_shared_graph ==
    /\ pc = "loop"
    /\ LET r == build_network_call(df, "AST", MainThresholds[step])
       IN  /\ weight_column' = "AST"
           /\ min_weight' = MainThresholds[step]
           /\ G' = r.G
           /\ heap' = [i \in 1..(Len(heap) + 1) |-> r.G]
           /\ pc' = "built"
    /\ UNCHANGED <<df, centralities, df_centrality, gephi, raw, step, output, scrape>>

MainBuild ==
    /\ pc = "loop"
    /\ LET r == build_network_call(df, "AST", MainThresholds[step])
       IN  /\ weight_column' = "AST"
           /\ min_weight' = MainThresholds[step]
           /\ IF r.raised # "None"
              THEN /\ pc' = "KeyError"
                   /\ UNCHANGED <<G, heap>>
              ELSE /\ G' = r.G
                   /\ heap' = Append(heap, r.G)
                   /\ pc' = "built"
    /\ UNCHANGED <<df, centralities, df_centrality, gephi, raw, step, output, scrape>>

MainContinue ==
    /\ pc = "built"
    /\ number_of_nodes(G) = 0
    /\ pc' = NextStep
    /\ step' = step + 1
    /\ UNCHANGED <<df, weight_column, min_weight, G, centralities, df_centrality,
                   gephi, raw, heap, output, scrape>>

MainCalculate_pruning ==
    /\ pc = "built"
    /\ number_of_nodes(G) # 0
    /\ LET positive(e) == e.weight > 0
           pruned == [G EXCEPT !.edges = SelectSeq(@, positive)]
           c == calculate_centralities(pruned)
       IN  /\ centralities' = c
           /\ df_centrality' = centrality_table(pruned, c)
           /\ G' = pruned
           /\ heap' = [heap EXCEPT ![Len(heap)] = pruned]
           /\ pc' = "computed"
    /\ UNCHANGED <<df, weight_column, min_weight, gephi, raw, step, output, scrape>>

MainCalculate ==
    /\ pc = "built"
    /\ number_of_nodes(G) # 0
    /\ LET c == calculate_centralities(G)
       IN  IF c.raised # "None"
           THEN /\ centralities' = c
                /\ df_centrality' = None
                /\ pc' = "raised"
           ELSE /\ centralities' = c
                /\ df_centrality' = centrality_table(G, c)
                /\ pc' = "computed"
    /\ UNCHANGED <<df, weight_column, min_weight, G, gephi, raw, heap, step,
                   output, scrape>>

\* print_top_players, visualize_network, fig.savefig and, for the threshold
\* 0 only, save_network_data
MainReport ==
    /\ pc = "computed"
    /\ output' = output
          \cup {[file |-> "GSW_network_ast.png", min_assists |-> min_weight,
                 content |-> G]}
          \cup (IF min_weight = 0
                THEN {[file |-> "player_centralities.csv", min_assists |-> 0,
                       content |-> df_centrality],
                      [file |-> "network_edges.csv", min_assists |-> 0,
                       content |-> G.edges]}
                ELSE {})
    /\ pc' = NextStep
    /\ step' = step + 1
    /\ UNCHANGED <<df, weight_column, min_weight, G, centralities, df_centrality,
                   gephi, raw, heap, scrape>>

NextMain == MainBuild \/ MainContinue \/ MainCalculate \/ MainReport

SpecMain == InitMain /\ [][NextMain]_vars

(***************************************************************************)
(* The pipeline clean_pass_data, prepare_gephi_files, main.  A raw row is   *)
(* what the scraper stores: the columns of the pass dashboard plus the       *)
(* PLAYER_NAME column the scraper adds.  Player ids are opaque tokens; the  *)
(* receiver id can be missing, the numeric columns cannot in this domain.   *)
(***************************************************************************)
MaxRawRows == 2

PipelineIds == {"id1", "id2"}
RawASTValues == {0, 7, 20}

PlayerNameOf(id) == IF id = "id1" THEN "A" ELSE "B"

LastFirstOf(id) == IF id = "id1" THEN "Aa" ELSE "Bb"

PassToOf(id) ==
    CASE id = "id1" -> "Aa"
      [] id = "id2" -> " Bb "
      [] OTHER -> NaN

RawRow ==
    {[PLAYER_ID |-> p, PLAYER_NAME |-> PlayerNameOf(p),
      PLAYER_NAME_LAST_FIRST |-> LastFirstOf(p),
      PASS_TEAMMATE_PLAYER_ID |-> t, PASS_TO |-> PassToOf(t),
      PASS |-> 8, AST |-> a, TEAM_NAME |-> "GSW"] :
        p \in PipelineIds, t \in PipelineIds \cup {NaN}, a \in RawASTValues}

columns_to_drop ==
    {"TEAM_NAME", "TEAM_ID", "TEAM_ABBREVIATION", "PASS_TYPE", "G", "FREQUENCY",
     "FGM", "FGA", "FG_PCT", "FG2M", "FG2A", "FG2_PCT", "FG3M", "FG3A", "FG3_PCT",
     "PLAYER_NAME"}

drop(table, columns) ==
    [i \in DOMAIN table |->
        [f \in (DOMAIN table[i]) \ columns |-> table[i][f]]]

dropna(table) ==
    LET complete(r) == r.PLAYER_ID # NaN /\ r.PASS_TEAMMATE_PLAYER_ID # NaN
    IN  SelectSeq(table, complete)

remove_self_passes(table) ==
    LET other(r) == r.PLAYER_ID # r.PASS_TEAMMATE_PLAYER_ID
    IN  SelectSeq(table, other)

strip(name) == IF name = " Bb " THEN "Bb" ELSE name

strip_names(table) ==
    [i \in DOMAIN table |->
        [table[i] EXCEPT !.PLAYER_NAME_LAST_FIRST = strip(@), !.PASS_TO = strip(@)]]

\* df_clean.sort_values('AST', ascending=False): the order of rows with
\* equal AST is left to the sorting routine.
sort_values_AST(rows) ==
    {[i \in DOMAIN rows |-> rows[perm[i]]] :
        perm \in {q \in [DOMAIN rows -> DOMAIN rows] :
                    /\ \A i, j \in DOMAIN rows : q[i] = q[j] => i = j
                    /\ \A i, j \in DOMAIN rows :
                          i < j => rows[q[i]].AST >= rows[q[j]].AST}}

clean_pass_data(table) ==
    sort_values_AST(strip_names(remove_self_passes(dropna(
        drop(table, columns_to_drop)))))

InitPipeline ==
    /\ raw \in TablesOf(RawRow, MaxRawRows)
    /\ df = <<>>
    /\ weight_column = "AST"
    /\ min_weight = 0
    /\ G = DiGraph
    /\ pc = "raw"
    /\ centralities = None
    /\ df_centrality = None
    /\ gephi = None
    /\ heap = <<>>
    /\ step = 0
    /\ output = {}
    /\ scrape = None

CleanPassData ==
    /\ pc = "raw"
    /\ df' \in clean_pass_data(raw)
    /\ pc' = "loaded"
    /\ UNCHANGED <<weight_column, min_weight, G, centralities, df_centrality, gephi,
                   raw, heap, step, output, scrape>>

MainLoad ==
    /\ pc = "prepared"
    /\ pc' = "loop"
    /\ step' = 1
    /\ UNCHANGED <<df, weight_column, min_weight, G, centralities, df_centrality,
                   gephi, raw, heap, output, scrape>>

\* MainCalculate and MainReport follow a build that returned a graph with
\* nodes, which no cleaned table allows (see MainBuild).
NextPipeline ==
    CleanPassData \/ PrepareGephiFiles \/ MainLoad \/ MainBuild \/ MainContinue

SpecPipeline == InitPipeline /\ [][NextPipeline]_vars

(***************************************************************************)
(* scrape_team_passes (pass_web has the same loop) and fetch_nba_json.      *)
(* scrape.fetch is the position inside the current call of fetch_nba_json,  *)
(* scrape.open the number of launched browsers not yet closed,              *)
(* scrape.closes the number of browser.close() calls of the current call,   *)
(* scrape.log what each player of the roster yielded so far.                *)
(***************************************************************************)
MaxRoster == 2

RosterPlayers == {"P1", "P2", "P3"}

Rosters ==
    {r \in TablesOf(RosterPlayers, MaxRoster) :
        \A i, j \in DOMAIN r : r[i] = r[j] => i = j}

RequestOutcomes == {"ok", "http_error", "request_failed", "bad_json"}

\* what the pass dashboard answers for one player: no result set at all, or
\* a first result set with this many rows
PlayerPayloads ==
    {[resultSets |-> FALSE, rowSet |-> 0],
     [resultSets |-> TRUE, rowSet |-> 0],
     [resultSets |-> TRUE, rowSet |-> 1]}

analysis == <<df, weight_column, min_weight, G, centralities, df_centrality, gephi,
              raw, heap, step, output>>

InitScrape ==
    /\ df = <<>>
    /\ weight_column = "AST"
    /\ min_weight = 0
    /\ G = DiGraph
    /\ pc = "start"
    /\ centralities = None
    /\ df_centrality = None
    /\ gephi = None
    /\ raw = None
    /\ heap = <<>>
    /\ step = 0
    /\ output = {}
    /\ scrape = [fetch |-> "idle", open |-> 0, closes |-> 0,
                 roster |-> <<>>, i |-> 0, payload |-> [resultSets |-> FALSE, rowSet |-> 0],
                 df_list |-> <<>>, log |-> <<>>,
                 result |-> "unset", file |-> <<>>, written |-> FALSE]

\* browser = playwright.chromium.launch(headless=True)
FetchLaunch ==
    /\ scrape.fetch = "call"
    /\ scrape' = [scrape EXCEPT !.fetch = "launched", !.open = @ + 1, !.closes = 0]
    /\ UNCHANGED <<pc, analysis>>

\* browser.new_context, context.new_page, page.goto: outside the try block
FetchNavigate ==
    /\ scrape.fetch = "launched"
    /\ \E reached \in BOOLEAN :
          scrape' = [scrape EXCEPT !.fetch = IF reached THEN "navigated" ELSE "raised"]
    /\ UNCHANGED <<pc, analysis>>

\* the try block, its except clause, browser.close() and the return
FetchRequest ==
    /\ scrape.fetch = "navigated"
    /\ \E outcome \in RequestOutcomes :
          IF outcome = "ok"
          THEN \E roster \in Rosters, payload \in PlayerPayloads :
                  scrape' = [scrape EXCEPT
                                !.open = @ - 1, !.closes = @ + 1,
                                !.fetch = "returned",
                                !.roster = IF pc = "roster" THEN roster ELSE @,
                                !.payload = IF pc = "players" THEN payload ELSE @]
          ELSE scrape' = [scrape EXCEPT
                             !.open = @ - 1, !.closes = @ + 1, !.fetch = "raised"]
    /\ UNCHANGED <<pc, analysis>>

\* players_data = fetch_nba_json(p, url_players)
ScrapeCallRoster ==
    /\ pc = "start"
    /\ pc' = "roster"
    /\ scrape' = [scrape EXCEPT !.fetch = "call"]
    /\ UNCHANGED analysis

\* the roster fetch is outside any try block: its exception leaves the function
ScrapeRoster ==
    /\ pc = "roster"
    /\ scrape.fetch \in {"returned", "raised"}
    /\ IF scrape.fetch = "raised"
       THEN /\ pc' = "failed"
            /\ scrape' = [scrape EXCEPT !.fetch = "idle"]
       ELSE /\ pc' = "players"
            /\ scrape' = [scrape EXCEPT !.fetch = "idle", !.i = 1]
    /\ UNCHANGED analysis

\* data = fetch_nba_json(p, url_pass) for the next player of the roster
ScrapeCallPlayer ==
    /\ pc = "players"
    /\ scrape.fetch = "idle"
    /\ scrape.i <= Len(scrape.roster)
    /\ scrape' = [scrape EXCEPT !.fetch = "call"]
    /\ UNCHANGED <<pc, analysis>>

ScrapePlayer_abort_on_error ==
    /\ pc = "players"
    /\ scrape.fetch \in {"returned", "raised"}
    /\ LET name == scrape.roster[scrape.i]
       IN  IF scrape.fetch = "raised"
           THEN scrape' = [scrape EXCEPT !.fetch = "idle",
                                         !.i = Len(scrape.roster) + 1,
                                         !.log = Append(@, [outcome |-> "failed", rowSet |-> 0])]
           ELSE IF ~scrape.payload.resultSets
           THEN scrape' = [scrape EXCEPT !.fetch = "idle", !.i = @ + 1,
                                         !.log = Append(@, [outcome |-> "empty", rowSet |-> 0])]
           ELSE scrape' = [scrape EXCEPT
                              !.fetch = "idle", !.i = @ + 1,
                              !.log = Append(@, [outcome |-> "data",
                                                rowSet |-> scrape.payload.rowSet]),
                              !.df_list = Append(@, [k \in 1..scrape.payload.rowSet |->
                                                        [PLAYER_NAME |-> name]])]
    /\ UNCHANGED <<pc, analysis>>

\* the rest of the loop body: continue on an exception or on an empty list
\* of result sets, else the rows of the first result set, tagged with the
\* player's name, are appended to df_list
ScrapePlayer ==
    /\ pc = "players"
    /\ scrape.fetch \in {"returned", "raised"}
    /\ LET name == scrape.roster[scrape.i]
       IN  IF scrape.fetch = "raised"
           THEN scrape' = [scrape EXCEPT !.fetch = "idle", !.i = @ + 1,
                                         !.log = Append(@, [outcome |-> "failed", rowSet |-> 0])]
           ELSE IF ~scrape.payload.resultSets
           THEN scrape' = [scrape EXCEPT !.fetch = "idle", !.i = @ + 1,
                                         !.log = Append(@, [outcome |-> "empty", rowSet |-> 0])]
           ELSE scrape' = [scrape EXCEPT
                              !.fetch = "idle", !.i = @ + 1,
                              !.log = Append(@, [outcome |-> "data",
                                                rowSet |-> scrape.payload.rowSet]),
                              !.df_list = Append(@, [k \in 1..scrape.payload.rowSet |->
                                                        [PLAYER_NAME |-> name]])]
    /\ UNCHANGED <<pc, analysis>>

RECURSIVE concat(_)
concat(frames) == IF frames = <<>> THEN <<>> ELSE Head(frames) \o concat(Tail(frames))

\* after the loop: return None without a file, or concat, to_csv and return
\* the path
ScrapeReturn ==
    /\ pc = "players"
    /\ scrape.fetch = "idle"
    /\ scrape.i > Len(scrape.roster)
    /\ pc' = "returned"
    /\ IF scrape.df_list = <<>>
       THEN scrape' = [scrape EXCEPT !.result = "None"]
       ELSE scrape' = [scrape EXCEPT !.result = "raw_csv_path",
                                     !.file = concat(scrape.df_list),
                                     !.written = TRUE]
    /\ UNCHANGED analysis

NextScrape ==
    \/ FetchLaunch \/ FetchNavigate \/ FetchRequest
    \/ ScrapeCallRoster \/ ScrapeRoster \/ ScrapeCallPlayer \/ ScrapePlayer
    \/ ScrapeReturn

SpecScrape == InitScrape /\ [][NextScrape]_vars

(***************************************************************************)
(* Properties of build_network, stated on the table and the graph alone.    *)
(* A row is accepted when its weight passes the threshold of the build.     *)
(***************************************************************************)
Weight(i) == IF weight_column = "AST" THEN df[i].AST ELSE df[i].PASS

Accepted(i) == Weight(i) >= min_weight

SamePair(i, j) ==
    df[i].PLAYER_NAME = df[j].PLAYER_NAME /\ df[i].PASS_TO = df[j].PASS_TO

EdgeIndices == DOMAIN G.edges

\* C1: after a build, the weight stored for an ordered pair is the weight of
\* the last accepted row of that pair, whatever rows lie between the rows of
\* the pair; it is never the sum of the weights of the pair's rows.
LastWriteWins ==
    pc = "built" =>
        \A i \in DOMAIN df :
            (Accepted(i) /\ ~\E j \in DOMAIN df : j > i /\ Accepted(j) /\ SamePair(i, j))
            => /\ \E k \in EdgeIndices :
                     /\ G.edges[k].u = df[i].PLAYER_NAME
                     /\ G.edges[k].v = df[i].PASS_TO
               /\ \A k \in EdgeIndices :
                     (G.edges[k].u = df[i].PLAYER_NAME /\ G.edges[k].v = df[i].PASS_TO)
                     => G.edges[k].weight = Weight(i)

LastWriteWinsWitness ==
    /\ pc = "built"
    /\ weight_column = "AST"
    /\ min_weight = 0
    /\ Len(df) = 3
    /\ SamePair(1, 3) /\ ~SamePair(1, 2)
    /\ df[1].AST = 5 /\ df[2].AST = 5 /\ df[3].AST = 7
    /\ \E k \in EdgeIndices :
          /\ G.edges[k].u = df[1].PLAYER_NAME
          /\ G.edges[k].v = df[1].PASS_TO
          /\ G.edges[k].weight = 7

\* C2: a row is dropped by the filter exactly when its weight is strictly
\* below min_weight: an ordered pair is an edge of the graph exactly when
\* some row of the pair has weight >= min_weight (a weight equal to
\* min_weight is kept), every stored weight is >= min_weight, and with
\* min_weight = 0 every row of non-negative weight has its pair in the graph.
MinWeightFilter ==
    pc = "built" =>
        /\ \A i \in DOMAIN df :
              Weight(i) >= min_weight
              => has_edge(G, df[i].PLAYER_NAME, df[i].PASS_TO)
        /\ \A k \in EdgeIndices :
              \E j \in DOMAIN df :
                 /\ df[j].PLAYER_NAME = G.edges[k].u
                 /\ df[j].PASS_TO = G.edges[k].v
                 /\ Weight(j) = G.edges[k].weight
                 /\ ~(Weight(j) < min_weight)
        /\ min_weight = 0 =>
              \A i \in DOMAIN df :
                 Weight(i) >= 0 => has_edge(G, df[i].PLAYER_NAME, df[i].PASS_TO)
        /\ number_of_edges(G) =
              Cardinality({<<df[i].PLAYER_NAME, df[i].PASS_TO>> :
                              i \in {j \in DOMAIN df : ~(Weight(j) < min_weight)}})

MinWeightFilterWitness ==
    /\ pc = "built"
    /\ weight_column = "AST"
    /\ min_weight = 5
    /\ Len(df) = 3
    /\ ~SamePair(1, 2) /\ ~SamePair(1, 3) /\ ~SamePair(2, 3)
    /\ df[1].AST = -1 /\ df[2].AST = 5 /\ df[3].AST = 7
    /\ number_of_edges(G) = 2
    /\ G.edges[1].weight = 5 /\ G.edges[2].weight = 7

\* C3: the graph returned by build_network holds no edge from a player to
\* that same player.
NoSelfLoops ==
    \A k \in EdgeIndices : G.edges[k].u # G.edges[k].v

\* C4: after a build the graph holds exactly one node per name that is an
\* endpoint of an accepted row, exactly one edge per ordered pair of an
\* accepted row, and both endpoints of every edge are nodes.
AcceptedRows == {i \in DOMAIN df : Accepted(i)}

ResultGuarantee ==
    pc = "built" =>
        /\ NodeSet(G) = {df[i].PLAYER_NAME : i \in AcceptedRows}
                            \cup {df[i].PASS_TO : i \in AcceptedRows}
        /\ \A a, b \in DOMAIN G.nodes : G.nodes[a] = G.nodes[b] => a = b
        /\ {<<G.edges[k].u, G.edges[k].v>> : k \in EdgeIndices}
              = {<<df[i].PLAYER_NAME, df[i].PASS_TO>> : i \in AcceptedRows}
        /\ \A a, b \in EdgeIndices :
              (G.edges[a].u = G.edges[b].u /\ G.edges[a].v = G.edges[b].v) => a = b
        /\ \A k \in EdgeIndices : has_node(G, G.edges[k].u) /\ has_node(G, G.edges[k].v)

ResultGuaranteeWitness ==
    /\ pc = "built"
    /\ Len(df) = 3
    /\ Cardinality(AcceptedRows) = 3
    /\ SamePair(1, 3) /\ ~SamePair(1, 2)
    /\ df[2].PLAYER_NAME = df[1].PASS_TO
    /\ number_of_edges(G) = 2
    /\ number_of_nodes(G) = Cardinality(NodeSet(G))

\* C9: a row with a missing passer name, a missing receiver name or a
\* negative weight contributes no node and no edge, so the graph is made of
\* the valid accepted rows only and every stored weight is >= 0.
Valid(i) ==
    /\ df[i].PLAYER_NAME # NaN
    /\ df[i].PASS_TO # NaN
    /\ Weight(i) >= 0

ValidRows == {i \in AcceptedRows : Valid(i)}

InvalidRecordsRejected ==
    pc = "built" =>
        /\ NodeSet(G) = {df[i].PLAYER_NAME : i \in ValidRows}
                            \cup {df[i].PASS_TO : i \in ValidRows}
        /\ {<<G.edges[k].u, G.edges[k].v>> : k \in EdgeIndices}
              = {<<df[i].PLAYER_NAME, df[i].PASS_TO>> : i \in ValidRows}
        /\ \A k \in EdgeIndices : G.edges[k].weight >= 0

(***************************************************************************)
(* Properties of calculate_centralities, stated on the graph and the        *)
(* returned metrics alone.                                                  *)
(***************************************************************************)
RECURSIVE TotalWeight(_)
TotalWeight(K) ==
    IF K = {} THEN 0
    ELSE LET k == CHOOSE x \in K : TRUE
         IN  G.edges[k].weight + TotalWeight(K \ {k})

RECURSIVE TotalOf(_, _)
TotalOf(f, N) ==
    IF N = {} THEN 0
    ELSE LET n == CHOOSE x \in N : TRUE IN f[n] + TotalOf(f, N \ {n})

OutgoingOf(n) == {k \in EdgeIndices : G.edges[k].u = n}

IncomingOf(n) == {k \in EdgeIndices : G.edges[k].v = n}

\* C5: the weighted out-degree (in-degree) returned for a node is the sum of
\* the weights of its outgoing (incoming) edges, and the out-degrees, the
\* in-degrees and the stored edge weights all have the same total.
DegreeConservation ==
    pc = "computed" =>
        /\ \A n \in NodeSet(G) :
              /\ centralities.degree_out[n] = TotalWeight(OutgoingOf(n))
              /\ centralities.degree_in[n] = TotalWeight(IncomingOf(n))
        /\ TotalOf(centralities.degree_out, NodeSet(G)) = TotalWeight(EdgeIndices)
        /\ TotalOf(centralities.degree_in, NodeSet(G)) = TotalWeight(EdgeIndices)

DegreeConservationWitness ==
    /\ pc = "computed"
    /\ number_of_edges(G) = 3
    /\ \E n \in NodeSet(G) :
          /\ Cardinality(OutgoingOf(n)) = 2
          /\ centralities.degree_out[n] = 15
          /\ centralities.degree_in[n] = 10
    /\ TotalOf(centralities.degree_in, NodeSet(G)) = 25

\* C6: calculate_centralities applied to a graph without nodes raises
\* EmptyGraphError instead of returning a result.
EmptyGraphRaises ==
    (pc \in {"computed", "raised"} /\ number_of_nodes(G) = 0)
        => centralities.raised = "EmptyGraphError"

(***************************************************************************)
(* Shortest paths, by enumeration: a path visits no node twice and its      *)
(* length is the sum of the 'weight' attributes of its edges.               *)
(***************************************************************************)
WeightOf(u, v) ==
    G.edges[CHOOSE k \in EdgeIndices : G.edges[k].u = u /\ G.edges[k].v = v].weight

Paths(s, t) ==
    {p \in UNION {[1..k -> NodeSet(G)] : k \in 2..number_of_nodes(G)} :
        /\ p[1] = s /\ p[Len(p)] = t
        /\ \A i, j \in DOMAIN p : p[i] = p[j] => i = j
        /\ \A i \in 1..(Len(p) - 1) : has_edge(G, p[i], p[i + 1])}

RECURSIVE PathLength(_)
PathLength(p) ==
    IF Len(p) < 2 THEN 0 ELSE WeightOf(p[1], p[2]) + PathLength(Tail(p))

ShortestPaths(s, t) ==
    {p \in Paths(s, t) : \A q \in Paths(s, t) : PathLength(p) <= PathLength(q)}

Relay(n) ==
    \E s, t \in NodeSet(G) \ {n} :
        /\ s # t
        /\ Cardinality(ShortestPaths(s, t)) = 1
        /\ \A p \in ShortestPaths(s, t) : \E i \in 2..(Len(p) - 1) : p[i] = n

IsChain(w) ==
    /\ G.nodes = <<"A", "B", "C">>
    /\ G.edges = <<[u |-> "A", v |-> "B", weight |-> w],
                   [u |-> "B", v |-> "C", weight |-> w]>>

\* C7: a node without incoming edge or without outgoing edge has betweenness
\* 0; a node strictly inside the only shortest path between two other nodes
\* has betweenness > 0; in the chain A->B (10), B->C (10) the betweenness of
\* B is positive, that of A and C is 0, out-degree(A) = in-degree(C) = 10.
BetweennessEndpointsRelays ==
    pc = "computed" =>
        /\ \A n \in NodeSet(G) :
              /\ (IncomingOf(n) = {} \/ OutgoingOf(n) = {})
                    => centralities.betweenness[n] = <<0, 1>>
              /\ Relay(n) => centralities.betweenness[n][1] > 0
        /\ IsChain(10) =>
              /\ centralities.betweenness["B"][1] > 0
              /\ centralities.betweenness["A"] = <<0, 1>>
              /\ centralities.betweenness["C"] = <<0, 1>>
              /\ centralities.degree_out["A"] = 10
              /\ centralities.degree_in["C"] = 10

BetweennessChainWitness ==
    /\ pc = "computed"
    /\ IsChain(10)
    /\ Relay("B")
    /\ IncomingOf("A") = {} /\ OutgoingOf("C") = {}
    /\ centralities.betweenness["B"] = <<1, 2>>

\* C10: for a graph with nodes and no edge, every node gets betweenness 0,
\* weighted in-degree 0, weighted out-degree 0 and pagerank 1/|V|.
EdgelessGraph ==
    (pc = "computed" /\ number_of_edges(G) = 0) =>
        \A n \in NodeSet(G) :
            /\ centralities.betweenness[n] = <<0, 1>>
            /\ centralities.degree_in[n] = 0
            /\ centralities.degree_out[n] = 0
            /\ centralities.pagerank[n] * number_of_nodes(G) = PRScale

EdgelessGraphWitness ==
    /\ pc = "computed"
    /\ G.nodes = <<"A", "B">>
    /\ number_of_edges(G) = 0
    /\ centralities.pagerank["A"] * 2 = PRScale
    /\ centralities.pagerank["B"] * 2 = PRScale

EdgelessSingleNodeWitness ==
    /\ pc = "computed"
    /\ G.nodes = <<"A">>
    /\ number_of_edges(G) = 0
    /\ centralities.pagerank["A"] = PRScale

(***************************************************************************)
(* Properties of the node table of prepare_gephi_files.                     *)
(***************************************************************************)
Mentions(i, id) == df[i].PLAYER_ID = id \/ df[i].PASS_TEAMMATE_PLAYER_ID = id

LabelIn(i, id) ==
    IF df[i].PLAYER_ID = id THEN df[i].PLAYER_NAME_LAST_FIRST ELSE df[i].PASS_TO

FirstRow(S) == CHOOSE i \in S : \A j \in S : i <= j

PageRankConservation ==
    (pc = "computed" /\ number_of_nodes(G) > 0) =>
        /\ Abs(TotalOf(centralities.pagerank, NodeSet(G)) - PRScale)
              <= number_of_nodes(G) * TolPerMillion * (PRScale \div 1000000)
        /\ \A n \in NodeSet(G) : centralities.pagerank[n] > 0

PageRankConservationWitness ==
    /\ pc = "computed"
    /\ G.nodes = <<"A", "B", "C">>
    /\ number_of_edges(G) = 1
    /\ has_edge(G, "A", "B")
    /\ OutgoingOf("B") = {} /\ OutgoingOf("C") = {} /\ IncomingOf("C") = {}
    /\ centralities.pagerank["B"] > centralities.pagerank["A"]
    /\ centralities.pagerank["A"] = centralities.pagerank["C"]
    /\ centralities.pagerank["C"] > 0

PositivePaths(s, t) ==
    {p \in Paths(s, t) : \A i \in 1..(Len(p) - 1) : WeightOf(p[i], p[i + 1]) > 0}

RECURSIVE ReciprocalLength(_)
ReciprocalLength(p) ==
    IF Len(p) < 2 THEN FZero
    ELSE FAdd(Frac(1, WeightOf(p[1], p[2])), ReciprocalLength(Tail(p)))

ReciprocalShortestPaths(s, t) ==
    {p \in PositivePaths(s, t) :
        \A q \in PositivePaths(s, t) :
            ~FLess(ReciprocalLength(q), ReciprocalLength(p))}

OnReciprocalShortestPath(n) ==
    \E s, t \in NodeSet(G) \ {n} :
        /\ s # t
        /\ \E p \in ReciprocalShortestPaths(s, t) :
              \E i \in 2..(Len(p) - 1) : p[i] = n

\* C12: shortest paths for betweenness take distance(edge) = 1/weight and
\* never use an edge of weight 0, so a node has positive betweenness exactly
\* when it lies strictly inside a route between two other nodes whose sum of
\* reciprocal weights is the smallest among the routes without weight-0 edge.
ReciprocalDistanceConvention ==
    pc = "computed" =>
        \A n \in NodeSet(G) :
            centralities.betweenness[n][1] > 0 <=> OnReciprocalShortestPath(n)

\* The light route A->B (5), B->C (5) ties with the heavy edge A->C (10)
\* under the library's distance, and B is credited as a relay.
LightRouteCredited ==
    /\ pc = "computed"
    /\ G.nodes = <<"A", "B", "C">>
    /\ G.edges = <<[u |-> "A", v |-> "B", weight |-> 5],
                   [u |-> "A", v |-> "C", weight |-> 10],
                   [u |-> "B", v |-> "C", weight |-> 5]>>
    /\ centralities.betweenness["B"] = <<1, 4>>
    /\ ~OnReciprocalShortestPath("B")

\* With the library defaults (alpha 0.85, tol 1e-6, max_iter 100) the power
\* iteration converges before the cap, so nx.pagerank never raises
\* PowerIterationFailedConvergence on the graphs build_network produces.
PowerIterationConverges == pc # "raised"

\* C14: within one run of main, computing and reporting leave the nodes, the
\* edges and the weights of the graph unchanged, no step changes the table
\* the graphs are built from, and building a graph for a later threshold
\* leaves every graph built earlier as it was.
GraphReadOnly ==
    [][/\ df' = df
       /\ \A i \in DOMAIN heap : i \in DOMAIN heap' /\ heap'[i] = heap[i]
       /\ pc \in {"built", "computed"} => G' = G]_vars

GraphReadOnlyWitness ==
    /\ pc = "computed"
    /\ Len(heap) = 2
    /\ heap[1] = build_network(df, "AST", 0)
    /\ heap[2] = build_network(df, "AST", 5)
    /\ heap[1] # heap[2]
    /\ G = heap[2]
    /\ \E f \in output : f.file = "network_edges.csv" /\ f.content = heap[1].edges

\* C15: the table written by clean_pass_data carries every column that
\* build_network reads, so main run on it never stops with a missing-column
\* error.
PipelineColumnContract == pc # "KeyError"

KeptRaw(i) ==
    /\ raw[i].PLAYER_ID # NaN
    /\ raw[i].PASS_TEAMMATE_PLAYER_ID # NaN
    /\ raw[i].PLAYER_ID # raw[i].PASS_TEAMMATE_PLAYER_ID

RawAccepted(i) == KeptRaw(i) /\ raw[i].AST >= min_weight

RawSamePair(i, j) ==
    /\ raw[i].PLAYER_ID = raw[j].PLAYER_ID
    /\ raw[i].PASS_TEAMMATE_PLAYER_ID = raw[j].PASS_TEAMMATE_PLAYER_ID

\* C16: in the pipeline clean_pass_data then build_network('AST', m), every
\* ordered pair that has a row with AST >= m among the rows that survive
\* cleaning gets an edge whose weight is the minimum AST of those rows,
\* whatever the order of the rows in the raw table.
MinimumASTStored ==
    pc \in {"built", "KeyError"} =>
        \A i \in DOMAIN raw :
            (RawAccepted(i)
               /\ \A j \in DOMAIN raw :
                     (RawAccepted(j) /\ RawSamePair(i, j)) => raw[i].AST <= raw[j].AST)
            => \E k \in DOMAIN G.edges :
                  /\ G.edges[k].u \in {raw[i].PLAYER_NAME, raw[i].PLAYER_NAME_LAST_FIRST}
                  /\ G.edges[k].v = strip(raw[i].PASS_TO)
                  /\ G.edges[k].weight = raw[i].AST

\* C17: once the pipeline has run on a cleaned table, every player of the
\* node table of prepare_gephi_files has, in the centralities main saves for
\* the threshold 0, a weighted out-degree equal to Assists_Donnes and a
\* weighted in-degree equal to Assists_Recus.
DegreeComputationsAgree ==
    pc \in {"done", "KeyError"} =>
        \A i \in DOMAIN gephi.nodes :
            \E f \in output :
                /\ f.file = "player_centralities.csv"
                /\ \E r \in DOMAIN f.content :
                      /\ f.content[r].Joueur
                            \in {gephi.nodes[i].Label, PlayerNameOf(gephi.nodes[i].Id)}
                      /\ f.content[r].Degre_Sortant = gephi.nodes[i].Assists_Donnes
                      /\ f.content[r].Degre_Entrant = gephi.nodes[i].Assists_Recus

\* C18: in the graph returned by build_network every node is an endpoint of
\* a stored edge and every stored edge has weight >= min_weight; the graph
\* has no node exactly when it has no edge.
NoIsolatedNodes ==
    pc = "built" =>
        /\ \A n \in NodeSet(G) :
              \E k \in EdgeIndices : G.edges[k].u = n \/ G.edges[k].v = n
        /\ \A k \in EdgeIndices : G.edges[k].weight >= min_weight
        /\ number_of_nodes(G) = 0 <=> number_of_edges(G) = 0

NoIsolatedNodesWitness ==
    /\ pc = "built"
    /\ min_weight = 5
    /\ weight_column = "AST"
    /\ number_of_edges(G) = 1
    /\ NodeSet(G) = {"A"}
    /\ \E i \in DOMAIN df : ~Accepted(i) /\ df[i].PLAYER_NAME = "B"

NoNodesNoEdgesWitness ==
    /\ pc = "built"
    /\ df # <<>>
    /\ number_of_nodes(G) = 0
    /\ number_of_edges(G) = 0

\* C19: whenever control leaves fetch_nba_json, by a return or by an
\* exception, the browser the call launched has been closed exactly once and
\* no browser is left open.
BrowserReleased ==
    scrape.fetch \in {"returned", "raised"} =>
        scrape.closes = 1 /\ scrape.open = 0

Yielded == {i \in DOMAIN scrape.log : scrape.log[i].outcome = "data"}

RECURSIVE OwnersInOrder(_, _)
OwnersInOrder(roster, rows) ==
    IF rows = <<>> THEN TRUE
    ELSE IF roster = <<>> THEN FALSE
    ELSE IF Head(rows).PLAYER_NAME = Head(roster)
         THEN OwnersInOrder(roster, Tail(rows))
         ELSE OwnersInOrder(Tail(roster), rows)

NoPlayerYieldedWitness ==
    /\ pc = "returned"
    /\ scrape.log = <<[outcome |-> "empty", rowSet |-> 0],
                      [outcome |-> "failed", rowSet |-> 0]>>
    /\ scrape.result = "None"
    /\ ~scrape.written

====
